---- MODULE Spec2Model ----
(***************************************************************************)
(* Model of the schema field extractor (extractCustomSchemaFields,         *)
(* extractFieldMetadata, deriveStep) and of the numeric branch of          *)
(* DynamicFieldRenderer.                                                   *)
(*                                                                         *)
(* Representation                                                          *)
(*   - an optional JavaScript value is a sequence of length 0 or 1:        *)
(*     Undefined is <<>>, a present value v is <<v>>.  A key that is       *)
(*     missing from an object and a key holding undefined are both         *)
(*     Undefined.                                                          *)
(*   - a string that the code inspects character by character (a $ref, a   *)
(*     definition name) is a sequence of one-character strings; other      *)
(*     strings are TLA+ strings.                                           *)
(*   - numbers are fixed-point, counted in hundredths: 0.01 is 1, 1 is     *)
(*     100.                                                                *)
(*   - a JavaScript object used as a map (properties, $defs, the returned  *)
(*     Record) is a function from its keys.                                *)
(*   - a call either returns or throws: [tag |-> "return", value |-> v]    *)
(*     or [tag |-> "throw"].                                               *)
(***************************************************************************)
EXTENDS Integers, Sequences, FiniteSets, TLC

VARIABLES
    HARDCODED_FIELDS,   \* the module-level array of reserved names
    configSchema,       \* argument of the call in progress / last call
    excludeFields,      \* argument of the call in progress / last call
    customFields,       \* outcome of the last call, Undefined when none
    schemaAfter,        \* the caller's schema object as the call left it
    passedBefore,       \* history: did a call already dropped pass extra names
    field,              \* renderer prop: the descriptor of the mounted control
    hasOnCommit,        \* renderer prop: is the optional onCommit passed
    validationError,    \* renderer state (useState)
    committed,          \* last value handed to the slider's commit callback
    onChangeArg,        \* last value delivered to onChange
    onCommitArg         \* last value delivered to onCommit

vars == <<HARDCODED_FIELDS, configSchema, excludeFields, customFields,
          schemaAfter, passedBefore, field, hasOnCommit, validationError, committed,
          onChangeArg, onCommitArg>>

extractorVars == <<HARDCODED_FIELDS, configSchema, excludeFields,
                   customFields, schemaAfter, passedBefore>>

rendererVars == <<field, hasOnCommit, validationError, committed,
                  onChangeArg, onCommitArg>>

----------------------------------------------------------------------------
(* Optional values *)

Undefined == <<>>

Some(v) == <<v>>

IsDefined(o) == o # Undefined

Get(o) == o[1]

(* Truthiness of an optional string: undefined and "" are falsy. *)
TruthyString(o) == IsDefined(o) /\ Get(o) # <<>>

(* Truthiness of an optional object or array: every object is truthy,      *)
(* the empty array included.                                               *)
TruthyObject(o) == IsDefined(o)

Range(s) == {s[i] : i \in DOMAIN s}

SeqsUpTo(S, n) == UNION {[1..k -> S] : k \in 0..n}

----------------------------------------------------------------------------
(* Bounds of the model *)

\* longest $ref string
MaxRefLen == 2

\* most properties in one schema
MaxProps == 2

----------------------------------------------------------------------------
(* Numbers, in hundredths *)

ONE == 100

STEP_INTEGER == 100

STEP_FINE == 1

STEP_DEFAULT == 10

----------------------------------------------------------------------------
(* The extractor *)

(* The array literal HARDCODED_FIELDS is initialised with. *)
HardcodedFieldsInit ==
    << "height", "width", "seed", "denoising_steps", "vae_type",
       "noise_scale", "noise_controller", "manage_cache",
       "kv_cache_attention_bias", "quantization", "ref_images",
       "vace_context_scale", "input_size", "ctrl_input", "images",
       "base_seed" >>

Return(v) == [tag |-> "return", value |-> v]

Throw == [tag |-> "throw"]

(* String.prototype.split("/"): the segments between the separators; a     *)
(* string without a separator (the empty string too) is one segment.       *)
RECURSIVE SplitSlash(_, _, _, _)
SplitSlash(s, i, cur, acc) ==
    IF i > Len(s) THEN Append(acc, cur)
    ELSE IF s[i] = "/" THEN SplitSlash(s, i + 1, <<>>, Append(acc, cur))
    ELSE SplitSlash(s, i + 1, Append(cur, s[i]), acc)

split(s) == SplitSlash(s, 1, <<>>, <<>>)

(* Array.prototype.shift() in the place of pop(): the first element. *)
shift(arr) == IF Len(arr) = 0 THEN Undefined ELSE Some(arr[1])

(* Array.prototype.pop(): the last element, undefined for an empty array. *)
pop(arr) == IF Len(arr) = 0 THEN Undefined ELSE Some(arr[Len(arr)])

(* defName || "" *)
OrEmptyString(o) == IF TruthyString(o) THEN Get(o) ELSE <<>>

(* defs[key]: the entry, undefined for a key the table does not have. *)
Lookup(table, key) ==
    IF key \in DOMAIN table THEN Some(table[key]) ELSE Undefined

(* definition.enum without the optional chaining: reading a member of      *)
(* undefined throws.                                                       *)
MemberEnum(definition) ==
    IF IsDefined(definition) THEN Return(Get(definition).enum) ELSE Throw

(* definition?.enum *)
OptionalChainEnum(definition) ==
    IF IsDefined(definition) THEN Return(Get(definition).enum)
    ELSE Return(Undefined)

(* deriveStep with range <= 1 in the place of range < 1. *)
deriveStepInclusive(type, minimum, maximum) ==
    IF type = "integer" THEN Some(STEP_INTEGER)
    ELSE IF type = "number"
    THEN IF IsDefined(minimum) /\ IsDefined(maximum)
            /\ Get(maximum) - Get(minimum) <= ONE
         THEN Some(STEP_FINE)
         ELSE Some(STEP_DEFAULT)
    ELSE Undefined

deriveStep(type, minimum, maximum) ==
    IF type = "integer" THEN Some(STEP_INTEGER)
    ELSE IF type = "number"
    THEN IF IsDefined(minimum) /\ IsDefined(maximum)
            /\ Get(maximum) - Get(minimum) < ONE
         THEN Some(STEP_FINE)
         ELSE Some(STEP_DEFAULT)
    ELSE Undefined

(* The object literal returned for a resolved reference: it has no         *)
(* minimum, maximum or step key.                                           *)
RefDescriptor(fieldName, property, definitionEnum) ==
    [name |-> fieldName, type |-> "enum",
     default |-> property.default, description |-> property.description,
     minimum |-> Undefined, maximum |-> Undefined,
     enumValues |-> definitionEnum, step |-> Undefined]

(* The object literal of the type switch with maximum copied from          *)
(* property.minimum.                                                       *)
TypeDescriptorMaximumFromMinimum(fieldName, type, property) ==
    [name |-> fieldName, type |-> type,
     default |-> property.default, description |-> property.description,
     minimum |-> property.minimum, maximum |-> property.minimum,
     enumValues |-> property.enum,
     step |-> deriveStep(type, property.minimum, property.maximum)]

(* The object literal returned by the type switch. *)
TypeDescriptor(fieldName, type, property) ==
    [name |-> fieldName, type |-> type,
     default |-> property.default, description |-> property.description,
     minimum |-> property.minimum, maximum |-> property.maximum,
     enumValues |-> property.enum,
     step |-> deriveStep(type, property.minimum, property.maximum)]

(* The switch with a default branch that falls back to string. *)
BaseTypeDefaultString(property) ==
    IF property.type = Some("boolean") THEN Some("boolean")
    ELSE IF property.type = Some("integer") THEN Some("integer")
    ELSE IF property.type = Some("number") THEN Some("number")
    ELSE IF property.type = Some("string")
    THEN IF TruthyObject(property.enum) THEN Some("enum") ELSE Some("string")
    ELSE Some("string")

(* The switch with the inline enumeration tested under every case. *)
BaseTypeEnumUnderEveryCase(property) ==
    IF property.type \in {Some("boolean"), Some("integer"), Some("number"), Some("string")}
    THEN IF TruthyObject(property.enum) THEN Some("enum") ELSE property.type
    ELSE Undefined

(* The switch on property.type: the descriptor type, undefined for the     *)
(* default branch.                                                         *)
BaseType(property) ==
    IF property.type = Some("boolean") THEN Some("boolean")
    ELSE IF property.type = Some("integer") THEN Some("integer")
    ELSE IF property.type = Some("number") THEN Some("number")
    ELSE IF property.type = Some("string")
    THEN IF TruthyObject(property.enum) THEN Some("enum") ELSE Some("string")
    ELSE Undefined

(* Second half of extractFieldMetadata: null (Undefined) for an            *)
(* unsupported type.                                                       *)
ClassifyByType(fieldName, property) ==
    IF IsDefined(BaseType(property))
    THEN Return(Some(TypeDescriptor(fieldName, Get(BaseType(property)), property)))
    ELSE Return(Undefined)

extractFieldMetadata(fieldName, property, defs) ==
    IF TruthyString(property.ref) /\ TruthyObject(defs)
    THEN LET refPath == Get(property.ref)
             defName == pop(split(refPath))
             definition == Lookup(Get(defs), OrEmptyString(defName))
             enumRead == OptionalChainEnum(definition)
         IN  IF enumRead.tag = "throw" THEN Throw
             ELSE IF TruthyObject(enumRead.value)
             THEN Return(Some(RefDescriptor(fieldName, property, enumRead.value)))
             ELSE ClassifyByType(fieldName, property)
    ELSE ClassifyByType(fieldName, property)

(* new Set(HARDCODED_FIELDS): the caller's names left out. *)
allExcludedFieldsHardcodedOnly(hardcoded, excludeArg) == Range(hardcoded)

(* new Set([...HARDCODED_FIELDS, ...excludeFields]); the parameter         *)
(* defaults to [] when the argument is omitted.                            *)
allExcludedFields(hardcoded, excludeArg) ==
    Range(hardcoded \o (IF IsDefined(excludeArg) THEN Get(excludeArg) ELSE <<>>))

(* The loop over Object.entries(configSchema.properties). *)
ExtractLoop(properties, defs, excluded) ==
    LET visited == {n \in DOMAIN properties : n \notin excluded}
        meta(n) == extractFieldMetadata(n, properties[n], defs)
        kept == {n \in visited : meta(n).tag = "return" /\ IsDefined(meta(n).value)}
    IN  IF \E n \in visited : meta(n).tag = "throw" THEN Throw
        ELSE Return([n \in kept |-> Get(meta(n).value)])

EmptyRecord == [n \in {} |-> Undefined]

extractCustomSchemaFields(schema, excludeArg, hardcoded) ==
    IF ~IsDefined(schema) \/ ~TruthyObject(Get(schema).properties)
    THEN Return(EmptyRecord)
    ELSE ExtractLoop(Get(Get(schema).properties), Get(schema).defs,
                     allExcludedFields(hardcoded, excludeArg))

----------------------------------------------------------------------------
(* The schemas a caller passes *)

Optional(S) == {Undefined} \cup {Some(v) : v \in S}

FieldNames == {"height", "cfg_scale", "sampler"}

TypeTags == {"boolean", "integer", "number", "string", "object", "array"}

InlineEnums == {<<>>, <<"b", "a">>}

DefEnum == <<"euler", "dpm++">>

Defaults == {"dflt"}

Descriptions == {"text"}

Minimums == {0, 100}

Maximums == {80, 100, 2000}

RefChars == {"/", "S", "x"}

RefStrings == SeqsUpTo(RefChars, MaxRefLen)

(* Properties that vary what the type switch and deriveStep read. *)
TypedProperties ==
    [type : Optional(TypeTags), enum : Optional(InlineEnums), ref : {Undefined},
     default : Optional(Defaults), description : Optional(Descriptions),
     minimum : Optional(Minimums), maximum : Optional(Maximums)]

(* Properties that vary what the reference resolution reads. *)
RefProperties ==
    [type : Optional({"integer", "string", "object"}),
     enum : Optional({<<"b", "a">>}), ref : {Some(r) : r \in RefStrings},
     default : Optional(Defaults), description : Optional(Descriptions),
     minimum : {Undefined}, maximum : {Undefined}]

Property(type, enum, ref, minimum, maximum) ==
    [type |-> type, enum |-> enum, ref |-> ref, default |-> Some("dflt"),
     description |-> Undefined, minimum |-> minimum, maximum |-> maximum]

(* The properties of schemas with more than one property. *)
CompanionProperties ==
    { Property(Some("object"), Undefined, Undefined, Undefined, Undefined),
      Property(Undefined, Undefined, Some(<<"S", "/">>), Undefined, Undefined),
      Property(Some("integer"), Undefined, Undefined, Some(0), Some(80)),
      Property(Some("number"), Undefined, Undefined, Some(0), Some(80)),
      Property(Undefined, Undefined, Some(<<"/", "S">>), Undefined, Undefined),
      Property(Some("string"), Some(<<"b", "a">>), Undefined, Undefined, Undefined) }

Definitions == [enum : Optional({<<>>, DefEnum})]

(* Definition tables: none, or a table with or without an entry S (with    *)
(* no, an empty or a two-valued enumeration) and with or without an entry  *)
(* under the empty name (with the two-valued enumeration).                 *)
DefTables ==
    {Undefined}
    \cup {Some(t) : t \in {u \in UNION {[names -> Definitions] :
                                           names \in SUBSET {<<"S">>, <<>>}} :
                              <<>> \in DOMAIN u => u[<<>>].enum = Some(DefEnum)}}

StandardDefs == Some([n \in {<<"S">>} |-> [enum |-> Some(DefEnum)]])

PropertyMaps(names, properties) == UNION {[ns -> properties] : ns \in names}

SingleNames == {{n} : n \in FieldNames}

SeveralNames == {ns \in SUBSET FieldNames : Cardinality(ns) > 1 /\ Cardinality(ns) <= MaxProps}

Schema(properties, defs) == Some([properties |-> properties, defs |-> defs])

Schemas ==
    {Undefined}
    \cup {Schema(Undefined, d) : d \in {Undefined, StandardDefs}}
    \cup {Schema(Some(EmptyRecord), d) : d \in {Undefined, StandardDefs}}
    \cup {Schema(Some(p), d) : p \in PropertyMaps(SingleNames, TypedProperties),
                               d \in {Undefined, StandardDefs}}
    \cup {Schema(Some(p), d) : p \in PropertyMaps(SingleNames, RefProperties),
                               d \in DefTables}
    \cup {Schema(Some(p), d) : p \in PropertyMaps(SeveralNames, CompanionProperties),
                               d \in DefTables}

ExcludeArgs == {Undefined, Some(<<"cfg_scale">>), Some(<<"cfg_scale", "height">>)}

----------------------------------------------------------------------------
(* The extractor's state machine: calls one after another.  Only the       *)
(* module-level array outlives a call; the arguments and the returned      *)
(* value are kept until the caller drops them.                             *)

(* HARDCODED_FIELDS after a call that pushed the caller's names onto it. *)
HardcodedPushed(hardcoded, excludeArg) ==
    hardcoded \o (IF IsDefined(excludeArg) THEN Get(excludeArg) ELSE <<>>)

(* HARDCODED_FIELDS after a call: the Set is built from a spread copy and  *)
(* nothing writes to the array.                                            *)
HardcodedAfterCall(hardcoded, excludeArg) == hardcoded

(* The caller's schema object after a call: nothing writes to it. *)
SchemaAfterCall(schema) == schema

ExtractorIdle ==
    /\ configSchema = Undefined
    /\ excludeFields = Undefined
    /\ customFields = Undefined
    /\ schemaAfter = Undefined

RendererUnmounted ==
    /\ field = Undefined
    /\ hasOnCommit = FALSE
    /\ validationError = Undefined
    /\ committed = Undefined
    /\ onChangeArg = Undefined
    /\ onCommitArg = Undefined

Init ==
    /\ HARDCODED_FIELDS = HardcodedFieldsInit
    /\ passedBefore = FALSE
    /\ ExtractorIdle
    /\ RendererUnmounted

Extract ==
    /\ customFields = Undefined
    /\ \E schema \in Schemas, excludeArg \in ExcludeArgs :
          /\ configSchema' = schema
          /\ excludeFields' = excludeArg
          /\ customFields' = Some(extractCustomSchemaFields(schema, excludeArg, HARDCODED_FIELDS))
          /\ HARDCODED_FIELDS' = HardcodedAfterCall(HARDCODED_FIELDS, excludeArg)
          /\ schemaAfter' = SchemaAfterCall(schema)
    /\ UNCHANGED <<passedBefore, rendererVars>>

(* The caller drops the arguments and the result of the last call. *)
Drop ==
    /\ customFields # Undefined
    /\ configSchema' = Undefined
    /\ excludeFields' = Undefined
    /\ customFields' = Undefined
    /\ schemaAfter' = Undefined
    /\ passedBefore' = (passedBefore \/ IsDefined(excludeFields))
    /\ UNCHANGED <<HARDCODED_FIELDS, rendererVars>>

Next == Extract \/ Drop

Spec == Init /\ [][Next]_vars

----------------------------------------------------------------------------
(* The numeric branch of DynamicFieldRenderer *)

(* The descriptors the extractor hands to the numeric branch. *)
NumericFields ==
    {Get(extractFieldMetadata("cfg_scale", p, Undefined).value) :
        p \in {q \in TypedProperties :
                 /\ q.type \in {Some("integer"), Some("number")}
                 /\ q.enum = Undefined
                 /\ q.default = Undefined
                 /\ q.description = Undefined}}

(* The values the slider's commit callback is called with. *)
CommitValues == {-100, 0, 50, 80, 100, 150, 3000}

(* validateNumeric: the boolean it returns and the validationError it      *)
(* sets, a message naming the bound that is broken.                        *)
validateNumeric(fieldProp, newValue) ==
    IF IsDefined(fieldProp.minimum) /\ newValue < Get(fieldProp.minimum)
    THEN [valid |-> FALSE,
          error |-> Some([text |-> "Must be at least", bound |-> Get(fieldProp.minimum)])]
    ELSE IF IsDefined(fieldProp.maximum) /\ newValue > Get(fieldProp.maximum)
    THEN [valid |-> FALSE,
          error |-> Some([text |-> "Must be at most", bound |-> Get(fieldProp.maximum)])]
    ELSE [valid |-> TRUE, error |-> Undefined]

(* The component is rendered with a numeric field; useState starts at null. *)
Mount ==
    /\ field = Undefined
    /\ \E f \in NumericFields, passed \in BOOLEAN :
          /\ field' = Some(f)
          /\ hasOnCommit' = passed
    /\ validationError' = Undefined
    /\ UNCHANGED <<committed, onChangeArg, onCommitArg, extractorVars>>

(* The callback given to useLocalSliderValue, called with a committed      *)
(* value: validateNumeric(v); onChange(field.name, v); onCommit?.(...)     *)
SliderCommit ==
    /\ field # Undefined
    /\ \E v \in CommitValues :
          /\ committed' = Some(v)
          /\ validationError' = validateNumeric(Get(field), v).error
          /\ onChangeArg' = Some(v)
          /\ onCommitArg' = IF hasOnCommit THEN Some(v) ELSE onCommitArg
    /\ UNCHANGED <<field, hasOnCommit, extractorVars>>

Unmount ==
    /\ field # Undefined
    /\ field' = Undefined
    /\ hasOnCommit' = FALSE
    /\ validationError' = Undefined
    /\ committed' = Undefined
    /\ onChangeArg' = Undefined
    /\ onCommitArg' = Undefined
    /\ UNCHANGED extractorVars

NextRenderer == Mount \/ SliderCommit \/ Unmount

SpecRenderer == Init /\ [][NextRenderer]_vars

----------------------------------------------------------------------------
(* Vocabulary of the properties                                            *)

(* A call has returned and its arguments and result are still held. *)
Returned == customFields # Undefined /\ Get(customFields).tag = "return"

(* The mapping the last call returned. *)
Output == Get(customFields).value

(* The properties of the schema passed to the last call. *)
InputProperties ==
    IF IsDefined(configSchema) /\ IsDefined(Get(configSchema).properties)
    THEN Get(Get(configSchema).properties)
    ELSE EmptyRecord

InputDefs == IF IsDefined(configSchema) THEN Get(configSchema).defs ELSE Undefined

BuiltInNames ==
    {"height", "width", "seed", "denoising_steps", "vae_type", "noise_scale",
     "noise_controller", "manage_cache", "kv_cache_attention_bias",
     "quantization", "ref_images", "vace_context_scale", "input_size",
     "ctrl_input", "images", "base_seed"}

(* The exclusion set of the last call: built-in names and the caller's. *)
ExclusionSet ==
    BuiltInNames \cup (IF IsDefined(excludeFields) THEN Range(Get(excludeFields)) ELSE {})

(* The part of a string after its final "/", the whole string when it has  *)
(* none.                                                                   *)
TrailingSegment(s) ==
    LET slashes == {i \in DOMAIN s : s[i] = "/"}
        last == CHOOSE i \in slashes : \A j \in slashes : j <= i
    IN  IF slashes = {} THEN s ELSE SubSeq(s, last + 1, Len(s))

(* The property declares a reference: a non-empty $ref string. *)
DeclaresReference(p) == IsDefined(p.ref) /\ Len(Get(p.ref)) > 0

(* The reference names an entry of the definitions table. *)
NamesDefinition(p, defs) ==
    /\ DeclaresReference(p)
    /\ IsDefined(defs)
    /\ TrailingSegment(Get(p.ref)) \in DOMAIN Get(defs)

NamedDefinition(p, defs) == Get(defs)[TrailingSegment(Get(p.ref))]

(* The reference resolves to a definition carrying an enumeration. *)
ResolvesToEnum(p, defs) ==
    NamesDefinition(p, defs) /\ IsDefined(NamedDefinition(p, defs).enum)

(* ... carrying a non-empty enumeration. *)
ResolvesToNonEmptyEnum(p, defs) ==
    ResolvesToEnum(p, defs) /\ Len(Get(NamedDefinition(p, defs).enum)) > 0

PrimitiveTags == {"boolean", "integer", "number", "string"}

HasPrimitiveTag(p) == IsDefined(p.type) /\ Get(p.type) \in PrimitiveTags

DescriptorTypes == {"boolean", "integer", "number", "string", "enum"}

----------------------------------------------------------------------------
(* C1: the mapping a call returns has no key of the exclusion set, the     *)
(* built-in names united with the names the caller passed, whether or not  *)
(* the property under that key would classify.                             *)
C1_NoExcludedKey ==
    customFields # Undefined =>
        /\ Returned
        /\ Cardinality(BuiltInNames) = 16
        /\ \A k \in DOMAIN Output : k \notin ExclusionSet

(* An integer property named cfg_scale, passed with cfg_scale excluded by  *)
(* the caller, is left out of the mapping returned.                        *)
C1_Witness ==
    /\ Returned
    /\ IsDefined(excludeFields)
    /\ "cfg_scale" \in Range(Get(excludeFields))
    /\ "cfg_scale" \in DOMAIN InputProperties
    /\ InputProperties["cfg_scale"].type = Some("integer")
    /\ "cfg_scale" \notin DOMAIN Output

----------------------------------------------------------------------------
(* C2 as amended: a property name is a key of the output if and only if    *)
(* the property is not excluded and either its reference resolves to a     *)
(* definition carrying an enumeration or its type is boolean, integer,     *)
(* number or string; the descriptor under a key has that key as name and   *)
(* one of the five types; a property of type object or array, or with no   *)
(* type, is absent unless its reference resolves to a definition carrying  *)
(* an enumeration.                                                         *)
C2_KeysIffClassified ==
    customFields # Undefined =>
        /\ Returned
        /\ DOMAIN Output \subseteq DOMAIN InputProperties
        /\ \A n \in DOMAIN InputProperties :
              /\ n \in DOMAIN Output <=>
                    /\ n \notin ExclusionSet
                    /\ \/ ResolvesToEnum(InputProperties[n], InputDefs)
                       \/ HasPrimitiveTag(InputProperties[n])
              /\ n \in DOMAIN Output =>
                    /\ Output[n].name = n
                    /\ Output[n].type \in DescriptorTypes
              /\ /\ ~HasPrimitiveTag(InputProperties[n])
                 /\ ~ResolvesToEnum(InputProperties[n], InputDefs)
                 => n \notin DOMAIN Output

(* A property of type object that is not excluded is dropped while the     *)
(* other property of the same schema is kept.                              *)
C2_Witness ==
    /\ Returned
    /\ \E n \in DOMAIN InputProperties :
          /\ InputProperties[n].type = Some("object")
          /\ n \notin ExclusionSet
          /\ n \notin DOMAIN Output
    /\ DOMAIN Output # {}

(* C2 as stated: the same, with every property of type object or array     *)
(* absent.                                                                 *)
C2_AsStated ==
    customFields # Undefined =>
        /\ Returned
        /\ \A n \in DOMAIN InputProperties :
              /\ n \in DOMAIN Output <=>
                    /\ n \notin ExclusionSet
                    /\ \/ ResolvesToEnum(InputProperties[n], InputDefs)
                       \/ HasPrimitiveTag(InputProperties[n])
              /\ n \in DOMAIN Output =>
                    /\ Output[n].name = n
                    /\ Output[n].type \in DescriptorTypes
              /\ InputProperties[n].type \in {Some("object"), Some("array")}
                 => n \notin DOMAIN Output
              /\ /\ InputProperties[n].type = Undefined
                 /\ ~ResolvesToEnum(InputProperties[n], InputDefs)
                 => n \notin DOMAIN Output

----------------------------------------------------------------------------
(* C3: in every descriptor returned, enumValues is present and non-empty   *)
(* only when the type is enum, and a descriptor of type enum carries a     *)
(* non-empty enumValues.                                                   *)
C3_EnumValuesOnlyForEnum ==
    Returned =>
        \A k \in DOMAIN Output :
            /\ Output[k].type # "enum" =>
                  ~(IsDefined(Output[k].enumValues) /\ Len(Get(Output[k].enumValues)) > 0)
            /\ Output[k].type = "enum" =>
                  /\ IsDefined(Output[k].enumValues)
                  /\ Len(Get(Output[k].enumValues)) > 0

----------------------------------------------------------------------------
(* C4: a property that is not excluded and declares a reference whose      *)
(* trailing segment names a definition carrying a non-empty enumeration    *)
(* gets a descriptor of type enum whose enumValues are the definition's    *)
(* enumeration, in its order, and whose default and description are the    *)
(* property's, whatever type tag the property declares.                    *)
C4_ReferenceGivesEnum ==
    Returned =>
        \A n \in DOMAIN InputProperties :
            /\ n \notin ExclusionSet
            /\ ResolvesToNonEmptyEnum(InputProperties[n], InputDefs)
            => /\ n \in DOMAIN Output
               /\ Output[n].type = "enum"
               /\ Output[n].enumValues = NamedDefinition(InputProperties[n], InputDefs).enum
               /\ Output[n].default = InputProperties[n].default
               /\ Output[n].description = InputProperties[n].description

(* A property tagged integer, with an inline enumeration of its own, whose *)
(* reference /S resolves to the definition S: the descriptor is the enum   *)
(* of the definition.                                                      *)
C4_Witness ==
    /\ Returned
    /\ \E n \in DOMAIN Output :
          /\ InputProperties[n].type = Some("integer")
          /\ InputProperties[n].enum = Some(<<"b", "a">>)
          /\ InputProperties[n].ref = Some(<<"/", "S">>)
          /\ InputProperties[n].default = Some("dflt")
          /\ ResolvesToNonEmptyEnum(InputProperties[n], InputDefs)
          /\ Output[n].type = "enum"
          /\ Output[n].enumValues = Some(<<"euler", "dpm++">>)

----------------------------------------------------------------------------
(* C5: a property that is not excluded and not classified by reference     *)
(* resolution (no reference, no definitions table, a reference that names  *)
(* no definition, or a definition without an enumeration) is classified by *)
(* its own type tag: boolean, integer and number give that type, with or   *)
(* without an inline enumeration; string gives enum with a non-empty       *)
(* inline enumeration and string without one; any other or absent tag      *)
(* gives no descriptor.                                                    *)
NotClassifiedByReference(p, defs) ==
    \/ ~DeclaresReference(p)
    \/ ~IsDefined(defs)
    \/ ~NamesDefinition(p, defs)
    \/ ~IsDefined(NamedDefinition(p, defs).enum)

C5_TypeTagDecides ==
    Returned =>
        \A n \in DOMAIN InputProperties :
            LET p == InputProperties[n] IN
            /\ n \notin ExclusionSet
            /\ NotClassifiedByReference(p, InputDefs)
            => /\ p.type \in {Some("boolean"), Some("integer"), Some("number")}
                  => n \in DOMAIN Output /\ Some(Output[n].type) = p.type
               /\ p.type = Some("string") /\ IsDefined(p.enum) /\ Len(Get(p.enum)) > 0
                  => n \in DOMAIN Output /\ Output[n].type = "enum"
               /\ p.type = Some("string") /\ ~IsDefined(p.enum)
                  => n \in DOMAIN Output /\ Output[n].type = "string"
               /\ ~HasPrimitiveTag(p) => n \notin DOMAIN Output

(* An integer property with an inline enumeration, whose reference names  *)
(* a definition without an enumeration, stays an integer.                  *)
C5_Witness ==
    /\ Returned
    /\ \E n \in DOMAIN Output :
          /\ InputProperties[n].type = Some("integer")
          /\ InputProperties[n].enum = Some(<<"b", "a">>)
          /\ NamesDefinition(InputProperties[n], InputDefs)
          /\ ~IsDefined(NamedDefinition(InputProperties[n], InputDefs).enum)
          /\ Output[n].type = "integer"

----------------------------------------------------------------------------
(* C6: a descriptor of type integer has step 1; a descriptor of type       *)
(* number has step 0.01 exactly when minimum and maximum are both defined  *)
(* and maximum - minimum < 1, and step 0.1 otherwise; a descriptor of type *)
(* boolean, string or enum has no step.                                    *)
NarrowRange(p) ==
    /\ IsDefined(p.minimum)
    /\ IsDefined(p.maximum)
    /\ Get(p.maximum) - Get(p.minimum) < 100

C6_Step ==
    Returned =>
        \A n \in DOMAIN Output :
            /\ Output[n].type = "integer" => Output[n].step = Some(100)
            /\ Output[n].type = "number" =>
                  /\ NarrowRange(InputProperties[n]) <=> Output[n].step = Some(1)
                  /\ ~NarrowRange(InputProperties[n]) <=> Output[n].step = Some(10)
            /\ Output[n].type \in {"boolean", "string", "enum"} =>
                  Output[n].step = Undefined

(* A number with minimum 0 and maximum 1, a range of exactly 1, has step   *)
(* 0.1.                                                                    *)
C6_Witness ==
    /\ Returned
    /\ \E n \in DOMAIN Output :
          /\ Output[n].type = "number"
          /\ InputProperties[n].minimum = Some(0)
          /\ InputProperties[n].maximum = Some(100)
          /\ Output[n].step = Some(10)

----------------------------------------------------------------------------
(* C7 as amended: a call never raises; for an absent schema or a schema    *)
(* without properties it returns an empty mapping; a property with an      *)
(* unsupported or absent type and no reference, or a reference that does   *)
(* not resolve (no definitions table, a trailing segment, empty or not,    *)
(* that names no definition, a definition without enumeration) is omitted, *)
(* and the other properties of the schema are still classified.            *)
OthersClassified(n) ==
    \A m \in DOMAIN InputProperties \ {n} :
        m \notin ExclusionSet /\ HasPrimitiveTag(InputProperties[m])
        => m \in DOMAIN Output /\ Output[m].type \in DescriptorTypes

C7_NeverRaises ==
    customFields # Undefined =>
        /\ Returned
        /\ ~IsDefined(configSchema) => Output = EmptyRecord
        /\ IsDefined(configSchema) /\ ~IsDefined(Get(configSchema).properties)
           => Output = EmptyRecord
        /\ \A n \in DOMAIN InputProperties :
              /\ ~HasPrimitiveTag(InputProperties[n])
              /\ NotClassifiedByReference(InputProperties[n], InputDefs)
              => n \notin DOMAIN Output /\ OthersClassified(n)

(* A property with no type whose reference S/ has an empty trailing        *)
(* segment is omitted, and another property of the schema is returned.     *)
C7_Witness ==
    /\ Returned
    /\ \E n \in DOMAIN InputProperties :
          /\ InputProperties[n].type = Undefined
          /\ InputProperties[n].ref = Some(<<"S", "/">>)
          /\ IsDefined(InputDefs)
          /\ n \notin ExclusionSet
          /\ n \notin DOMAIN Output
          /\ \E m \in DOMAIN Output : m # n

(* C7 as stated: the same, with every reference whose trailing segment is  *)
(* empty counted as one that does not resolve.                             *)
EmptyTrailingSegment(p) ==
    DeclaresReference(p) /\ TrailingSegment(Get(p.ref)) = <<>>

C7_AsStated ==
    customFields # Undefined =>
        /\ Returned
        /\ ~IsDefined(configSchema) => Output = EmptyRecord
        /\ IsDefined(configSchema) /\ ~IsDefined(Get(configSchema).properties)
           => Output = EmptyRecord
        /\ \A n \in DOMAIN InputProperties :
              /\ ~HasPrimitiveTag(InputProperties[n])
              /\ \/ NotClassifiedByReference(InputProperties[n], InputDefs)
                 \/ EmptyTrailingSegment(InputProperties[n])
              => n \notin DOMAIN Output /\ OthersClassified(n)

----------------------------------------------------------------------------
(* C8: whatever calls were made before, a call returns what it returns as  *)
(* the first call: the built-in list is never changed, and after a call    *)
(* that passed extra names a call that passes none excludes only the       *)
(* built-in names.                                                         *)
C8_HistoryIndependent ==
    /\ HARDCODED_FIELDS = HardcodedFieldsInit
    /\ customFields # Undefined =>
          customFields =
              Some(extractCustomSchemaFields(configSchema, excludeFields, HardcodedFieldsInit))
    /\ Returned /\ passedBefore /\ ~IsDefined(excludeFields) =>
          \A n \in DOMAIN InputProperties :
              n \notin BuiltInNames /\ HasPrimitiveTag(InputProperties[n])
              => n \in DOMAIN Output

(* After an earlier call that passed extra names, a call without extra     *)
(* names returns a descriptor for cfg_scale.                               *)
C8_Witness ==
    /\ Returned
    /\ passedBefore
    /\ ~IsDefined(excludeFields)
    /\ "cfg_scale" \in DOMAIN Output

----------------------------------------------------------------------------
(* C9: a call leaves the schema as it was; every descriptor has the        *)
(* default and description of its property, and a descriptor produced from *)
(* the property's own type tag has its minimum and maximum too, absent     *)
(* where the property's is absent.                                         *)
C9_InputsKept ==
    Returned =>
        /\ schemaAfter = configSchema
        /\ \A n \in DOMAIN Output :
              /\ Output[n].default = InputProperties[n].default
              /\ Output[n].description = InputProperties[n].description
              /\ ~ResolvesToEnum(InputProperties[n], InputDefs) =>
                    /\ Output[n].minimum = InputProperties[n].minimum
                    /\ Output[n].maximum = InputProperties[n].maximum

(* A string property with a description, no default, a minimum of 1 and a  *)
(* maximum of 20 is returned with the same four attributes.                *)
C9_Witness ==
    /\ Returned
    /\ schemaAfter = configSchema
    /\ \E n \in DOMAIN Output :
          /\ Output[n].type = "string"
          /\ InputProperties[n].default = Undefined
          /\ Output[n].description = Some("text")
          /\ Output[n].minimum = Some(100)
          /\ Output[n].maximum = Some(2000)

----------------------------------------------------------------------------
(* C10: for a mounted integer or number field, no value below a defined    *)
(* minimum or above a defined maximum is delivered to onChange or          *)
(* onCommit, and the validation message is shown exactly when the value    *)
(* committed last is out of bounds.                                        *)
InBounds(f, v) ==
    /\ IsDefined(f.minimum) => v >= Get(f.minimum)
    /\ IsDefined(f.maximum) => v <= Get(f.maximum)

C10_BoundsEnforced ==
    field # Undefined =>
        /\ IsDefined(onChangeArg) => InBounds(Get(field), Get(onChangeArg))
        /\ IsDefined(onCommitArg) => InBounds(Get(field), Get(onCommitArg))
        /\ IsDefined(committed) =>
              (IsDefined(validationError) <=> ~InBounds(Get(field), Get(committed)))

====
